---- MODULE Spec2Model ----
(***************************************************************************)
(* Model of matrix_solver.c: the search for the K x K submatrix with the   *)
(* greatest sum of ln|v| over its odd entries, run by two MPI ranks, each  *)
(* searching its row block with an OpenMP team.                            *)
(*                                                                         *)
(* Doubles.  Every double the program computes is -INFINITY or a finite    *)
(* sum of ln(a) for integers a >= 1.  A double d is represented by e^d, a  *)
(* natural number: -INFINITY is 0, 0.0 is 1, ln 3 is 3, ln 3 + ln 5 is 15. *)
(* log_sum += log(a) is multiplication by a, and > on doubles is > on the  *)
(* representations, exp being strictly increasing.  Rounding of the        *)
(* floating-point sum is not modelled.                                     *)
(***************************************************************************)
EXTENDS Integers, Sequences, FiniteSets, TLC

\* ------------------------------------------------------------------ bounds
\* Largest number of cells (N * M) of a matrix the model generates.
MaxCells == 4
\* Largest OpenMP team.
MaxThreads == 2
\* Largest number of cells of a matrix in the generator's own specification.
GenMaxCells == 2
\* Largest number of cells of a matrix in the scoring function's own specification.
ScoreMaxCells == 4

\* --------------------------------------------------------- program constants
MAX_MATRIX_SIZE == 1000
MIN_VALUE == -100
MAX_VALUE == 100

\* -INFINITY (e^-inf = 0 in the representation of doubles).
NEG_INFINITY == 0

\* rand() outputs the two-rank specification draws from: 100 gives 0 (1 after
\* the odd bias), 105 gives 5; 105 % 3 = 0 triggers the bias.
RandOutputs == {100, 105}
\* rand() outputs of the generator's own specification: both ends of the range.
GenRandOutputs == {0, 1, 100, 102, 199, 200}
\* Cell values of the scoring function's own specification.
ScoreValues == {-3, -1, 0, 1, 2, 3}

VARIABLES
    \* ---- the MPI run (main)
    size,           \* MPI_Comm_size
    pc,             \* pc[rank]: position of each rank in main
    N, M, K,        \* N[rank], M[rank], K[rank]: each rank's copy (0 until assigned)
    matrix,         \* matrix[rank]: the rank's rows (<<>> before allocation)
    idx,            \* idx[rank]: the row loop's counter i
    local_result,   \* local_result[rank]
    other_result,   \* rank 0's other_result
    result,         \* rank 0's result
    outcome,        \* what rank 0 printed: "none", "found", "no_result"
    chan,           \* chan[<<src, dst>>]: messages sent and not yet received
    rendezvous,     \* TRUE: MPI_Send completes only with the matching MPI_Recv
    sent,           \* history: every completed MPI_Send, in order
    searched,       \* history: arguments of every call of the search, per rank
    \* ---- one call of find_best_submatrix_parallel (the OpenMP team)
    arg_matrix, arg_N, arg_M, arg_K,   \* the call's arguments
    nthreads,       \* size of the team
    tpc,            \* tpc[t]: position of thread t
    next,           \* next unassigned iteration of the collapsed loop
    iter,           \* iter[t]: the iteration thread t holds (-1: none)
    local_best,     \* local_best[t]
    best_result,    \* the shared best_result
    lock,           \* thread inside the critical region (0: none)
    returned,       \* the value returned (NoResult before the return)
    scored,         \* history: scored[<<i, j>>]: times window (i, j) was scored
    entered,        \* history: entered[t]: times t entered the critical region
    \* ---- one call of calculate_log_product_submatrix
    start_row, start_col, score_ret,
    \* ---- one call of generate_random_matrix
    stream,         \* the values rand() returns, in order
    gen_ret

mpiVars == <<size, pc, N, M, K, matrix, idx, local_result, other_result, result,
             outcome, chan, rendezvous, sent, searched>>
argVars == <<arg_matrix, arg_N, arg_M, arg_K>>
ompVars == <<nthreads, tpc, next, iter, local_best, best_result, lock, returned,
             scored, entered>>
scoreVars == <<start_row, start_col, score_ret>>
genVars == <<stream, gen_ret>>
vars == <<mpiVars, argVars, ompVars, scoreVars, genVars>>

\* A SubmatrixResult (or a returned value) not assigned yet.
NoResult == [unset |-> TRUE]

\* ------------------------------------------------------------- C arithmetic
Abs(x) == IF x < 0 THEN -x ELSE x

\* C's a % b for b > 0: the remainder has the sign of a.
CRem(a, b) == IF a >= 0 THEN a % b ELSE -((-a) % b)

Min(a, b) == IF a <= b THEN a ELSE b

\* matrix[i][j], rows and columns counted from 0 as in C.
Cell(mat, i, j) == mat[i + 1][j + 1]

\* All rows x cols matrices over a set of values.
MatricesOver(rows, cols, values) == [1..rows -> [1..cols -> values]]

\* ----------------------------------------------------------------- scoring
\* log(abs(v)) in the representation of doubles.
Log(a) == a
\* x + y on doubles in the representation.
FAdd(x, y) == x * y

\* is_odd without abs: C's % keeps the sign, so -3 % 2 is -1.
is_odd_NoAbs(num) == CRem(num, 2) = 1
\* abs(num) % 2 == 1.
is_odd(num) == CRem(Abs(num), 2) = 1

\* The two nested loops of calculate_log_product_submatrix, cell k of the
\* window in row-major order; yields <<log_sum, odd_count>>.
RECURSIVE ScoreLoop(_, _, _, _, _, _, _)
ScoreLoop(mat, sr, sc, Kk, k, log_sum, odd_count) ==
    IF k >= Kk * Kk THEN <<log_sum, odd_count>>
    ELSE LET v == Cell(mat, sr + (k \div Kk), sc + (k % Kk))
         IN  IF is_odd(v) /\ v # 0
             THEN ScoreLoop(mat, sr, sc, Kk, k + 1, FAdd(log_sum, Log(Abs(v))), odd_count + 1)
             ELSE ScoreLoop(mat, sr, sc, Kk, k + 1, log_sum, odd_count)

calculate_log_product_submatrix(mat, sr, sc, Kk) ==
    LET r == ScoreLoop(mat, sr, sc, Kk, 0, 1, 0)
    IN  IF r[2] > 0 THEN r[1] ELSE NEG_INFINITY

\* --------------------------------------------------------------- the search
SubmatrixResult(r, c, s) == [row |-> r, col |-> c, max_log_product |-> s]

\* A zero-initialised row and column in the initial value.
Sentinel_Zero == SubmatrixResult(0, 0, NEG_INFINITY)
\* {-1, -1, -INFINITY}: the initial value of best_result and of local_best.
Sentinel == SubmatrixResult(-1, -1, NEG_INFINITY)

\* is_valid_submatrix with < for <=: the last row and column of windows are lost.
is_valid_submatrix_Strict(i, j, Kk, Nn, Mm) == i + Kk < Nn /\ j + Kk < Mm
is_valid_submatrix(i, j, Kk, Nn, Mm) == i + Kk <= Nn /\ j + Kk <= Mm

\* Trip counts of the two collapsed loops, i in 0..N-K and j in 0..M-K.
\* The outer loop with i < N - K.
TripsI_Exclusive(Nn, Kk) == IF Nn - Kk < 0 THEN 0 ELSE Nn - Kk
TripsI(Nn, Kk) == IF Nn - Kk < 0 THEN 0 ELSE Nn - Kk + 1
TripsJ(Mm, Kk) == IF Mm - Kk < 0 THEN 0 ELSE Mm - Kk + 1
\* Iterations of the collapsed loop, numbered 0 .. Iterations - 1 row-major.
Iterations(Nn, Mm, Kk) == TripsI(Nn, Kk) * TripsJ(Mm, Kk)
IterI(n, Mm, Kk) == n \div TripsJ(Mm, Kk)
IterJ(n, Mm, Kk) == n % TripsJ(Mm, Kk)

\* The strict comparison with which a candidate replaces a held result.
\* The comparison turned round.
Better_Less(cand, held) == cand.max_log_product < held.max_log_product
Better(cand, held) == cand.max_log_product > held.max_log_product

\* The loop body at (i, j): the thread's local_best afterwards.
\* The loop body without the comparison of line 107: the last window wins.
LoopBody_NoCompare(mat, Nn, Mm, Kk, i, j, lb) ==
    IF is_valid_submatrix(i, j, Kk, Nn, Mm)
    THEN SubmatrixResult(i, j, calculate_log_product_submatrix(mat, i, j, Kk))
    ELSE lb
LoopBody(mat, Nn, Mm, Kk, i, j, lb) ==
    IF is_valid_submatrix(i, j, Kk, Nn, Mm)
    THEN LET current == SubmatrixResult(i, j, calculate_log_product_submatrix(mat, i, j, Kk))
         IN  IF Better(current, lb) THEN current ELSE lb
    ELSE lb

\* The critical region: best_result afterwards.
\* The critical region without the comparison of line 119: the last thread wins.
CriticalMerge_Overwrite(lb, best) == lb
CriticalMerge(lb, best) == IF Better(lb, best) THEN lb ELSE best

\* local_best of thread t once the loop is over, when iteration n went to
\* thread owner[n + 1]; a thread runs its iterations in increasing order.
RECURSIVE ThreadScan(_, _, _, _, _, _, _, _)
ThreadScan(mat, Nn, Mm, Kk, owner, t, n, lb) ==
    IF n >= Iterations(Nn, Mm, Kk) THEN lb
    ELSE ThreadScan(mat, Nn, Mm, Kk, owner, t, n + 1,
                    IF owner[n + 1] = t
                    THEN LoopBody(mat, Nn, Mm, Kk, IterI(n, Mm, Kk), IterJ(n, Mm, Kk), lb)
                    ELSE lb)

\* best_result after the threads order[k], order[k+1], ... passed the critical region.
RECURSIVE MergeAll(_, _, _, _)
MergeAll(locals, order, k, best) ==
    IF k > Len(order) THEN best
    ELSE MergeAll(locals, order, k + 1, CriticalMerge(locals[order[k]], best))

\* The orders in which T threads may pass the critical region.
MergeOrders(T) == {o \in [1..T -> 1..T] : \A a, b \in 1..T : a # b => o[a] # o[b]}
\* The ways the dynamic schedule may hand the iterations to T threads.
Schedules(Nn, Mm, Kk, T) == [1..Iterations(Nn, Mm, Kk) -> 1..T]

\* local_best of every thread of a team of T at the loop's barrier.
LocalBests(mat, Nn, Mm, Kk, T, owner) ==
    [t \in 1..T |-> ThreadScan(mat, Nn, Mm, Kk, owner, t, 0, Sentinel)]

\* What find_best_submatrix_parallel returns under one schedule and merge order.
find_best_submatrix_parallel(mat, Nn, Mm, Kk, T, owner, order) ==
    MergeAll(LocalBests(mat, Nn, Mm, Kk, T, owner), order, 1, Sentinel)

\* Every value find_best_submatrix_parallel may return with a team of T
\* threads: every schedule's local bests, merged in every order.
FindBestOutcomes(mat, Nn, Mm, Kk, T) ==
    LET locals == {LocalBests(mat, Nn, Mm, Kk, T, owner) :
                       owner \in Schedules(Nn, Mm, Kk, T)}
    IN  {MergeAll(l, order, 1, Sentinel) : l \in locals, order \in MergeOrders(T)}

\* ----------------------------------------------------------- the generator
\* The value of one cell: r1 is the rand() of line 27, r2 the rand() of line 29
\* (called only when the drawn value is even).
GenValue(r1, r2) ==
    LET v == (r1 % (MAX_VALUE - MIN_VALUE + 1)) + MIN_VALUE
    IN  IF CRem(v, 2) = 0 /\ r2 % 3 = 0 THEN v + 1 ELSE v

\* rand() calls one cell makes when its first draw is r1.
GenDraws(r1) ==
    IF CRem((r1 % (MAX_VALUE - MIN_VALUE + 1)) + MIN_VALUE, 2) = 0 THEN 2 ELSE 1

\* The loops of generate_random_matrix: cell c in row-major order, rs[pos] the
\* next value rand() returns; yields the cells filled so far.
RECURSIVE GenLoop(_, _, _, _, _)
GenLoop(Nn, Mm, rs, c, pos) ==
    IF c >= Nn * Mm THEN <<>>
    ELSE <<GenValue(rs[pos], IF GenDraws(rs[pos]) = 2 THEN rs[pos + 1] ELSE 0)>>
         \o GenLoop(Nn, Mm, rs, c + 1, pos + GenDraws(rs[pos]))

generate_random_matrix(Nn, Mm, rs) ==
    LET cells == GenLoop(Nn, Mm, rs, 0, 1)
    IN  [i \in 1..Nn |-> [j \in 1..Mm |-> cells[(i - 1) * Mm + j]]]

\* The streams of rand() values long enough for an Nn x Mm matrix.
Streams(Nn, Mm, outputs) == [1..(2 * Nn * Mm) -> outputs]

\* The values a cell takes when rand() returns values of RandOutputs.
CellValues == {GenValue(r1, r2) : r1 \in RandOutputs, r2 \in RandOutputs}

\* ------------------------------------------------ idle values of each group
MpiIdle ==
    /\ size = 0 /\ pc = <<>> /\ N = <<>> /\ M = <<>> /\ K = <<>> /\ matrix = <<>>
    /\ idx = <<>> /\ local_result = <<>> /\ other_result = NoResult /\ result = NoResult
    /\ outcome = "none" /\ chan = <<>> /\ rendezvous = FALSE /\ sent = <<>>
    /\ searched = <<>>
ArgIdle == arg_matrix = <<>> /\ arg_N = 0 /\ arg_M = 0 /\ arg_K = 0
OmpIdle ==
    /\ nthreads = 0 /\ tpc = <<>> /\ next = 0 /\ iter = <<>> /\ local_best = <<>>
    /\ best_result = Sentinel /\ lock = 0 /\ returned = NoResult /\ scored = <<>>
    /\ entered = <<>>
ScoreIdle == start_row = 0 /\ start_col = 0 /\ score_ret = -1
GenIdle == stream = <<>> /\ gen_ret = <<>>

\* ------------------------ one call of find_best_submatrix_parallel, by thread
Threads == 1..nthreads

\* The state at the call: any slice, any K >= 1, any team.
SearchInit ==
    /\ arg_N \in 0..MaxCells /\ arg_M \in 1..MaxCells /\ arg_N * arg_M <= MaxCells
    /\ arg_K \in 1..MaxCells
    /\ arg_matrix \in MatricesOver(arg_N, arg_M, CellValues)
    /\ nthreads \in 1..MaxThreads
    /\ tpc = [t \in Threads |-> "loop"]
    /\ next = 0
    /\ iter = [t \in Threads |-> -1]
    /\ local_best = [t \in Threads |-> Sentinel]
    /\ best_result = Sentinel
    /\ lock = 0
    /\ returned = NoResult
    /\ scored = <<>>
    /\ entered = [t \in Threads |-> 0]
    /\ MpiIdle /\ ScoreIdle /\ GenIdle

\* scored with one more scoring of window (i, j).
Count(sc, i, j) ==
    IF <<i, j>> \in DOMAIN sc THEN [sc EXCEPT ![<<i, j>>] = @ + 1]
    ELSE sc @@ (<<i, j>> :> 1)

\* schedule(dynamic): a thread takes the next unassigned iteration of the
\* collapsed loop, or finds none left and goes to the loop's barrier.
OmpFetch(t) ==
    /\ tpc[t] = "loop"
    /\ IF next < Iterations(arg_N, arg_M, arg_K)
       THEN /\ iter' = [iter EXCEPT ![t] = next]
            /\ next' = next + 1
            /\ tpc' = [tpc EXCEPT ![t] = "body"]
       ELSE /\ tpc' = [tpc EXCEPT ![t] = "barrier"]
            /\ UNCHANGED <<iter, next>>
    /\ UNCHANGED <<local_best, best_result, lock, returned, scored, entered, nthreads>>
    /\ UNCHANGED <<mpiVars, argVars, scoreVars, genVars>>

\* The loop body (lines 103-112) on the iteration the thread holds.
OmpBody(t) ==
    /\ tpc[t] = "body"
    /\ LET i == IterI(iter[t], arg_M, arg_K)
           j == IterJ(iter[t], arg_M, arg_K)
       IN  /\ local_best' = [local_best EXCEPT
                                ![t] = LoopBody(arg_matrix, arg_N, arg_M, arg_K, i, j, @)]
           /\ scored' = IF is_valid_submatrix(i, j, arg_K, arg_N, arg_M)
                        THEN Count(scored, i, j) ELSE scored
    /\ iter' = [iter EXCEPT ![t] = -1]
    /\ tpc' = [tpc EXCEPT ![t] = "loop"]
    /\ UNCHANGED <<next, best_result, lock, returned, entered, nthreads>>
    /\ UNCHANGED <<mpiVars, argVars, scoreVars, genVars>>

\* Without the barrier (nowait): each thread goes on as soon as it finds no
\* iteration left.
OmpBarrier_NoWait ==
    /\ \E t \in Threads :
         /\ tpc[t] = "barrier"
         /\ tpc' = [tpc EXCEPT ![t] = "wait"]
    /\ UNCHANGED <<iter, next, local_best, best_result, lock, returned, scored,
                   entered, nthreads>>
    /\ UNCHANGED <<mpiVars, argVars, scoreVars, genVars>>
\* The implicit barrier at the end of the omp for: the threads leave it once
\* every thread has arrived.
OmpBarrier ==
    /\ \A u \in Threads : tpc[u] = "barrier"
    /\ tpc' = [t \in Threads |-> "wait"]
    /\ UNCHANGED <<iter, next, local_best, best_result, lock, returned, scored,
                   entered, nthreads>>
    /\ UNCHANGED <<mpiVars, argVars, scoreVars, genVars>>

\* The region entered without waiting for the lock (the critical directive
\* left out).
OmpEnter_NoLock(t) ==
    /\ tpc[t] = "wait"
    /\ lock' = t
    /\ tpc' = [tpc EXCEPT ![t] = "critical"]
    /\ entered' = [entered EXCEPT ![t] = @ + 1]
    /\ UNCHANGED <<iter, next, local_best, best_result, returned, scored, nthreads>>
    /\ UNCHANGED <<mpiVars, argVars, scoreVars, genVars>>
\* Entry to the critical region (line 117): one thread at a time.
OmpEnter(t) ==
    /\ tpc[t] = "wait"
    /\ lock = 0
    /\ lock' = t
    /\ tpc' = [tpc EXCEPT ![t] = "critical"]
    /\ entered' = [entered EXCEPT ![t] = @ + 1]
    /\ UNCHANGED <<iter, next, local_best, best_result, returned, scored, nthreads>>
    /\ UNCHANGED <<mpiVars, argVars, scoreVars, genVars>>

\* The critical region (lines 119-121) and its exit.
OmpCritical(t) ==
    /\ tpc[t] = "critical"
    /\ best_result' = CriticalMerge(local_best[t], best_result)
    /\ lock' = 0
    /\ tpc' = [tpc EXCEPT ![t] = "end"]
    /\ UNCHANGED <<iter, next, local_best, returned, scored, entered, nthreads>>
    /\ UNCHANGED <<mpiVars, argVars, scoreVars, genVars>>

\* The end of the parallel region and the return (line 125).
OmpReturn ==
    /\ returned = NoResult
    /\ \A t \in Threads : tpc[t] = "end"
    /\ returned' = best_result
    /\ UNCHANGED <<iter, next, local_best, best_result, lock, tpc, scored, entered,
                   nthreads>>
    /\ UNCHANGED <<mpiVars, argVars, scoreVars, genVars>>

SearchNext ==
    \/ \E t \in Threads : OmpFetch(t)
    \/ \E t \in Threads : OmpBody(t)
    \/ OmpBarrier
    \/ \E t \in Threads : OmpEnter(t)
    \/ \E t \in Threads : OmpCritical(t)
    \/ OmpReturn

SpecSearch == SearchInit /\ [][SearchNext]_vars

\* ------------------------------ one call of calculate_log_product_submatrix
\* The state at the call: any matrix, any window inside it.
ScoreInit ==
    /\ arg_N \in 1..ScoreMaxCells /\ arg_M \in 1..ScoreMaxCells
    /\ arg_N * arg_M <= ScoreMaxCells
    /\ arg_K \in 1..Min(arg_N, arg_M)
    /\ arg_matrix \in MatricesOver(arg_N, arg_M, ScoreValues)
    /\ start_row \in 0..(arg_N - arg_K)
    /\ start_col \in 0..(arg_M - arg_K)
    /\ score_ret = -1
    /\ MpiIdle /\ OmpIdle /\ GenIdle

CallScore ==
    /\ score_ret = -1
    /\ score_ret' = calculate_log_product_submatrix(arg_matrix, start_row, start_col, arg_K)
    /\ UNCHANGED <<start_row, start_col, mpiVars, argVars, ompVars, genVars>>

SpecScore == ScoreInit /\ [][CallScore]_vars

\* --------------------------------------- one call of generate_random_matrix
\* The state at the call: any dimensions, any sequence of rand() values.
GenInit ==
    /\ arg_N \in 1..GenMaxCells /\ arg_M \in 1..GenMaxCells
    /\ arg_N * arg_M <= GenMaxCells
    /\ stream \in Streams(arg_N, arg_M, GenRandOutputs)
    /\ gen_ret = <<>>
    /\ arg_K = 0 /\ arg_matrix = <<>>
    /\ MpiIdle /\ OmpIdle /\ ScoreIdle

CallGenerate ==
    /\ gen_ret = <<>>
    /\ gen_ret' = generate_random_matrix(arg_N, arg_M, stream)
    /\ UNCHANGED <<stream, mpiVars, argVars, ompVars, scoreVars>>

SpecGen == GenInit /\ [][CallGenerate]_vars

\* ------------------------------------------------------------ the MPI run
\* Sizes of MPI_COMM_WORLD the program may be started with.
WorldSizes == {1, 2, 3}
Ranks == 0..(size - 1)

\* What scanf may read into N, M and K.
Inputs == {-1, 0} \cup (1..MaxCells) \cup {MAX_MATRIX_SIZE, MAX_MATRIX_SIZE + 1}

\* validate_parameters without the test K > M of line 166.
validate_parameters_NoKM(Nn, Mm, Kk) ==
    IF Nn <= 0 \/ Mm <= 0 \/ Kk <= 0 THEN FALSE
    ELSE IF Kk > Nn THEN FALSE
    ELSE IF Nn > MAX_MATRIX_SIZE \/ Mm > MAX_MATRIX_SIZE THEN FALSE
    ELSE TRUE
validate_parameters(Nn, Mm, Kk) ==
    IF Nn <= 0 \/ Mm <= 0 \/ Kk <= 0 THEN FALSE
    ELSE IF Kk > Nn \/ Kk > Mm THEN FALSE
    ELSE IF Nn > MAX_MATRIX_SIZE \/ Mm > MAX_MATRIX_SIZE THEN FALSE
    ELSE TRUE

\* The split point rounded up.
Half_Ceil(Nn) == (Nn + 1) \div 2
\* int half = N / 2.
Half(Nn) == Nn \div 2

\* The two channels; all messages carry tag 0 and are matched in send order.
Pairs == {<<0, 1>>, <<1, 0>>}

\* A rank is inside MPI_Send: with rendezvous sends, until its message is received.
Blocked(r) == rendezvous /\ r \in {0, 1} /\ chan[<<r, 1 - r>>] # <<>>

MpiInitState ==
    /\ size \in WorldSizes
    /\ rendezvous \in BOOLEAN
    /\ pc = [r \in Ranks |-> "init"]
    /\ N = [r \in Ranks |-> 0] /\ M = [r \in Ranks |-> 0] /\ K = [r \in Ranks |-> 0]
    /\ matrix = [r \in Ranks |-> <<>>]
    /\ idx = [r \in Ranks |-> 0]
    /\ local_result = [r \in Ranks |-> NoResult]
    /\ other_result = NoResult
    /\ result = NoResult
    /\ outcome = "none"
    /\ chan = [p \in Pairs |-> <<>>]
    /\ sent = <<>>
    /\ searched = [r \in Ranks |-> <<>>]

\* The state after the program is started: omp_get_max_threads() is nthreads.
Init ==
    /\ MpiInitState
    /\ nthreads \in 1..MaxThreads
    /\ tpc = <<>> /\ next = 0 /\ iter = <<>> /\ local_best = <<>>
    /\ best_result = Sentinel /\ lock = 0 /\ returned = NoResult /\ scored = <<>>
    /\ entered = <<>>
    /\ ArgIdle /\ ScoreIdle /\ GenIdle

idleVars == <<argVars, ompVars, scoreVars, genVars>>

\* MPI_Init .. the size check (lines 187-196): every rank of a world of the
\* wrong size finalizes and returns 1.
Start(r) ==
    /\ pc[r] = "init"
    /\ pc' = [pc EXCEPT ![r] = IF size # 2 THEN "exit1"
                                ELSE IF r = 0 THEN "input" ELSE "recvN"]
    /\ UNCHANGED <<size, N, M, K, matrix, idx, local_result, other_result, result,
                   outcome, chan, rendezvous, sent, searched, idleVars>>

\* Rank 0 reads N, M, K and validates them (lines 199-209); MPI_Abort ends
\* every rank.
Input ==
    /\ pc[0] = "input"
    /\ \E n \in Inputs, m \in Inputs, k \in Inputs :
         /\ N' = [N EXCEPT ![0] = n]
         /\ M' = [M EXCEPT ![0] = m]
         /\ K' = [K EXCEPT ![0] = k]
         /\ pc' = IF validate_parameters(n, m, k)
                  THEN [pc EXCEPT ![0] = "generate"]
                  ELSE [r \in Ranks |-> "aborted"]
    /\ UNCHANGED <<size, matrix, idx, local_result, other_result, result,
                   outcome, chan, rendezvous, sent, searched, idleVars>>

\* allocate_matrix and generate_random_matrix (lines 215-216), for the matrices
\* within the model's bound.
Generate ==
    /\ pc[0] = "generate"
    /\ N[0] * M[0] <= MaxCells
    /\ \E rs \in Streams(N[0], M[0], RandOutputs) :
         matrix' = [matrix EXCEPT ![0] = generate_random_matrix(N[0], M[0], rs)]
    /\ pc' = [pc EXCEPT ![0] = "sendN"]
    /\ UNCHANGED <<size, N, M, K, idx, local_result, other_result, result,
                   outcome, chan, rendezvous, sent, searched, idleVars>>

\* MPI_Send(data) from src to dst: the message is queued and the call recorded.
Post(src, dst, data) ==
    /\ chan' = [chan EXCEPT ![<<src, dst>>] = Append(@, data)]
    /\ sent' = Append(sent, [src |-> src, dst |-> dst, data |-> data])

\* The first send with M in the place of N.
SendN_SendsM ==
    /\ pc[0] = "sendN" /\ ~Blocked(0)
    /\ Post(0, 1, <<M[0]>>)
    /\ pc' = [pc EXCEPT ![0] = "sendM"]
    /\ UNCHANGED <<size, N, M, K, matrix, idx, local_result, other_result, result,
                   outcome, rendezvous, searched, idleVars>>
\* Lines 226-228.
SendN ==
    /\ pc[0] = "sendN" /\ ~Blocked(0)
    /\ Post(0, 1, <<N[0]>>)
    /\ pc' = [pc EXCEPT ![0] = "sendM"]
    /\ UNCHANGED <<size, N, M, K, matrix, idx, local_result, other_result, result,
                   outcome, rendezvous, searched, idleVars>>

SendM ==
    /\ pc[0] = "sendM" /\ ~Blocked(0)
    /\ Post(0, 1, <<M[0]>>)
    /\ pc' = [pc EXCEPT ![0] = "sendK"]
    /\ UNCHANGED <<size, N, M, K, matrix, idx, local_result, other_result, result,
                   outcome, rendezvous, searched, idleVars>>

\* Line 228, then int half = N / 2 and the loop's i = half.
SendK ==
    /\ pc[0] = "sendK" /\ ~Blocked(0)
    /\ Post(0, 1, <<K[0]>>)
    /\ idx' = [idx EXCEPT ![0] = Half(N[0])]
    /\ pc' = [pc EXCEPT ![0] = "sendRows"]
    /\ UNCHANGED <<size, N, M, K, matrix, local_result, other_result, result,
                   outcome, rendezvous, searched, idleVars>>

\* The sending loop with i < N - 1: the last row is not sent.
SendRow_ExclusiveBound ==
    /\ pc[0] = "sendRows" /\ ~Blocked(0)
    /\ IF idx[0] < N[0] - 1
       THEN /\ Post(0, 1, matrix[0][idx[0] + 1])
            /\ idx' = [idx EXCEPT ![0] = @ + 1]
            /\ pc' = pc
       ELSE /\ pc' = [pc EXCEPT ![0] = "search"]
            /\ UNCHANGED <<chan, sent, idx>>
    /\ UNCHANGED <<size, N, M, K, matrix, local_result, other_result, result,
                   outcome, rendezvous, searched, idleVars>>
\* One turn of the loop of lines 232-234: row i is sent, i++.
SendRow ==
    /\ pc[0] = "sendRows" /\ ~Blocked(0)
    /\ idx[0] < N[0]
    /\ Post(0, 1, matrix[0][idx[0] + 1])
    /\ idx' = [idx EXCEPT ![0] = @ + 1]
    /\ pc' = [pc EXCEPT ![0] = IF idx[0] + 1 < N[0] THEN "sendRows" ELSE "search"]
    /\ UNCHANGED <<size, N, M, K, matrix, local_result, other_result, result,
                   outcome, rendezvous, searched, idleVars>>

\* searched with one more call of find_best_submatrix_parallel by rank r.
Called(r, rows) ==
    [searched EXCEPT ![r] = Append(@, [rows |-> rows, cols |-> M[r], K |-> K[r]])]

\* Line 237: rank 0 searches rows 0 .. half-1 of its matrix, under any
\* schedule of its team.
Search0 ==
    /\ pc[0] = "search" /\ ~Blocked(0)
    /\ \E res \in FindBestOutcomes(matrix[0], Half(N[0]), M[0], K[0], nthreads) :
         local_result' = [local_result EXCEPT ![0] = res]
    /\ searched' = Called(0, Half(N[0]))
    /\ pc' = [pc EXCEPT ![0] = "recvResult"]
    /\ UNCHANGED <<size, N, M, K, matrix, idx, other_result, result,
                   outcome, chan, rendezvous, sent, idleVars>>

\* MPI_Recv by rank 0 of rank 1's result (line 264).
RecvResult ==
    /\ pc[0] = "recvResult" /\ ~Blocked(0)
    /\ chan[<<1, 0>>] # <<>>
    /\ other_result' = Head(chan[<<1, 0>>])
    /\ chan' = [chan EXCEPT ![<<1, 0>>] = Tail(@)]
    /\ pc' = [pc EXCEPT ![0] = "select"]
    /\ UNCHANGED <<size, N, M, K, matrix, idx, local_result, result,
                   outcome, rendezvous, sent, searched, idleVars>>

\* Line 267: "Select better result".
\* The selection with >= for >: rank 0's result kept on a tie.
SelectLocalOnTie(local, other) ==
    IF local.max_log_product >= other.max_log_product THEN local ELSE other
Select(local, other) ==
    IF local.max_log_product > other.max_log_product THEN local ELSE other

\* Lines 271-281: which of the two messages is printed.
Report(res) == IF res.row # -1 /\ res.col # -1 THEN "found" ELSE "no_result"

\* Lines 267-290 on rank 0: the selection, the report, the end of the run.
SelectAndReport ==
    /\ pc[0] = "select"
    /\ result' = Select(local_result[0], other_result)
    /\ outcome' = Report(result')
    /\ pc' = [pc EXCEPT ![0] = "done"]
    /\ UNCHANGED <<size, N, M, K, matrix, idx, local_result, other_result,
                   chan, rendezvous, sent, searched, idleVars>>

\* MPI_Recv by rank 1 of N, M and K (lines 241-243).
RecvN ==
    /\ 1 \in Ranks /\ pc[1] = "recvN"
    /\ chan[<<0, 1>>] # <<>>
    /\ N' = [N EXCEPT ![1] = Head(chan[<<0, 1>>])[1]]
    /\ chan' = [chan EXCEPT ![<<0, 1>>] = Tail(@)]
    /\ pc' = [pc EXCEPT ![1] = "recvM"]
    /\ UNCHANGED <<size, M, K, matrix, idx, local_result, other_result, result,
                   outcome, rendezvous, sent, searched, idleVars>>

RecvM ==
    /\ 1 \in Ranks /\ pc[1] = "recvM"
    /\ chan[<<0, 1>>] # <<>>
    /\ M' = [M EXCEPT ![1] = Head(chan[<<0, 1>>])[1]]
    /\ chan' = [chan EXCEPT ![<<0, 1>>] = Tail(@)]
    /\ pc' = [pc EXCEPT ![1] = "recvK"]
    /\ UNCHANGED <<size, N, K, matrix, idx, local_result, other_result, result,
                   outcome, rendezvous, sent, searched, idleVars>>

\* Line 243, then half, allocate_matrix(N - half, M) and the loop's i = 0.
RecvK ==
    /\ 1 \in Ranks /\ pc[1] = "recvK"
    /\ chan[<<0, 1>>] # <<>>
    /\ K' = [K EXCEPT ![1] = Head(chan[<<0, 1>>])[1]]
    /\ chan' = [chan EXCEPT ![<<0, 1>>] = Tail(@)]
    /\ idx' = [idx EXCEPT ![1] = 0]
    /\ pc' = [pc EXCEPT ![1] = "recvRows"]
    /\ UNCHANGED <<size, N, M, matrix, local_result, other_result, result,
                   outcome, rendezvous, sent, searched, idleVars>>

\* The receiving loop with i <= N - half: one row more than rank 0 sends.
RecvRow_OneMore ==
    /\ 1 \in Ranks /\ pc[1] = "recvRows"
    /\ idx[1] <= N[1] - Half(N[1])
    /\ chan[<<0, 1>>] # <<>>
    /\ matrix' = [matrix EXCEPT ![1] = Append(@, Head(chan[<<0, 1>>]))]
    /\ chan' = [chan EXCEPT ![<<0, 1>>] = Tail(@)]
    /\ idx' = [idx EXCEPT ![1] = @ + 1]
    /\ pc' = [pc EXCEPT ![1] = IF idx[1] + 1 <= N[1] - Half(N[1]) THEN "recvRows"
                                ELSE "search"]
    /\ UNCHANGED <<size, N, M, K, local_result, other_result, result,
                   outcome, rendezvous, sent, searched, idleVars>>
\* One turn of the loop of lines 248-250: row i is received, i++.
RecvRow ==
    /\ 1 \in Ranks /\ pc[1] = "recvRows"
    /\ idx[1] < N[1] - Half(N[1])
    /\ chan[<<0, 1>>] # <<>>
    /\ matrix' = [matrix EXCEPT ![1] = Append(@, Head(chan[<<0, 1>>]))]
    /\ chan' = [chan EXCEPT ![<<0, 1>>] = Tail(@)]
    /\ idx' = [idx EXCEPT ![1] = @ + 1]
    /\ pc' = [pc EXCEPT ![1] = IF idx[1] + 1 < N[1] - Half(N[1]) THEN "recvRows"
                                ELSE "search"]
    /\ UNCHANGED <<size, N, M, K, local_result, other_result, result,
                   outcome, rendezvous, sent, searched, idleVars>>

\* Line 255: local_result.row += half.
\* The result left in the block's own row numbering.
AdjustRow_None(res, half) == res
AdjustRow(res, half) == [res EXCEPT !.row = @ + half]

\* Lines 252-255: rank 1 searches its N - half rows, under any schedule of its
\* team, and moves the row found to the full matrix's numbering.
Search1 ==
    /\ 1 \in Ranks /\ pc[1] = "search"
    /\ \E res \in FindBestOutcomes(matrix[1], N[1] - Half(N[1]), M[1], K[1], nthreads) :
         local_result' = [local_result EXCEPT ![1] = AdjustRow(res, Half(N[1]))]
    /\ searched' = Called(1, N[1] - Half(N[1]))
    /\ pc' = [pc EXCEPT ![1] = "sendResult"]
    /\ UNCHANGED <<size, N, M, K, matrix, idx, other_result, result,
                   outcome, chan, rendezvous, sent, idleVars>>

\* Line 258, then free_matrix and MPI_Finalize once the send has completed.
SendResult ==
    /\ 1 \in Ranks /\ pc[1] = "sendResult"
    /\ Post(1, 0, local_result[1])
    /\ pc' = [pc EXCEPT ![1] = "done"]
    /\ UNCHANGED <<size, N, M, K, matrix, idx, local_result, other_result, result,
                   outcome, rendezvous, searched, idleVars>>

Next ==
    \/ \E r \in Ranks : Start(r)
    \/ Input
    \/ Generate
    \/ SendN
    \/ SendM
    \/ SendK
    \/ SendRow
    \/ Search0
    \/ RecvResult
    \/ SelectAndReport
    \/ RecvN
    \/ RecvM
    \/ RecvK
    \/ RecvRow
    \/ Search1
    \/ SendResult

Spec == Init /\ [][Next]_vars

\* The steps of each of the two processes of a world of size 2.
Rank0Next ==
    \/ Start(0) \/ Input \/ Generate \/ SendN \/ SendM \/ SendK \/ SendRow
    \/ Search0 \/ RecvResult \/ SelectAndReport
Rank1Next ==
    \/ (1 \in Ranks /\ Start(1))
    \/ RecvN \/ RecvM \/ RecvK \/ RecvRow \/ Search1 \/ SendResult

\* The program started on two ranks of an MPI library whose sends complete
\* only when received, each rank with a team of one thread (OMP_NUM_THREADS=1).
FairInit == Init /\ size = 2 /\ rendezvous /\ nthreads = 1

\* Each process keeps running: a step of it that stays possible is taken.
FairSpec == FairInit /\ [][Next]_vars /\ WF_vars(Rank0Next) /\ WF_vars(Rank1Next)

\* ===================================================================
\* Properties
\* ===================================================================
\* Top-left corners of the valid windows of an Nn x Mm matrix.
ValidWindows(Nn, Mm, Kk) == (0..(Nn - Kk)) \X (0..(Mm - Kk))

\* The score of the window at w = <<row, col>>, computed directly.
DirectScore(mat, w, Kk) == calculate_log_product_submatrix(mat, w[1], w[2], Kk)

\* Rank 0 has selected the final result.
Finished == result # NoResult

\* ------------------------------------------------------------------ C1
\* C1 (partition equivalence): the score of the final result of the two-rank
\* run equals the score find_best_submatrix_parallel returns on the whole
\* N x M matrix, whatever the schedule of that one call.
C1_PartitionEquivalence ==
    Finished =>
        \A whole \in FindBestOutcomes(matrix[0], N[0], M[0], K[0], nthreads) :
            result.max_log_product = whole.max_log_product

\* ------------------------------------------------------------------ C2
\* C2 (optimality): the score find_best_submatrix_parallel returns is >= the
\* score of every valid window of the slice, for every team, schedule and
\* merge order.
C2_Optimality ==
    returned # NoResult =>
        \A w \in ValidWindows(arg_N, arg_M, arg_K) :
            returned.max_log_product >= DirectScore(arg_matrix, w, arg_K)

\* Two threads hold different local bests, and the greater one was returned.
C2_Witness ==
    /\ returned # NoResult
    /\ nthreads >= 2
    /\ local_best[1].max_log_product > NEG_INFINITY
    /\ local_best[2].max_log_product > local_best[1].max_log_product
    /\ returned = local_best[2]

\* ------------------------------------------------------------------ C3
\* C3 (no-result condition): rank 0 prints the no-result message if and only
\* if every valid window of the full matrix scores -INFINITY.
C3_NoResultIff ==
    Finished =>
        (outcome = "no_result"
            <=> \A w \in ValidWindows(N[0], M[0], K[0]) :
                    DirectScore(matrix[0], w, K[0]) = NEG_INFINITY)

\* ------------------------------------------------------------------ C4
\* C4 (sentinel correctness): when no entry of the full matrix is odd, the
\* final result is exactly {-1, -1, -INFINITY}.
C4_Sentinel ==
    (Finished /\ \A i \in 1..N[0], j \in 1..M[0] : matrix[0][i][j] % 2 = 0)
        => result = Sentinel

\* ------------------------------------------------------------------ C5
\* C5 as stated (boundary K = min(N, M)): exactly one valid window exists, and
\* the result is (0, 0) with the score of the window at (0, 0).
C5_Original ==
    (returned # NoResult /\ arg_N >= 1 /\ arg_K = Min(arg_N, arg_M)) =>
        /\ Cardinality(ValidWindows(arg_N, arg_M, arg_K)) = 1
        /\ returned.row = 0 /\ returned.col = 0
        /\ returned.max_log_product = DirectScore(arg_matrix, <<0, 0>>, arg_K)

\* C5 as amended (K = N = M): exactly one valid window exists; the returned
\* score is the score of the window at (0, 0); the result is (0, 0) when that
\* score is greater than -INFINITY and (-1, -1) when it is -INFINITY.
C5_SquareBoundary ==
    (returned # NoResult /\ arg_K = arg_N /\ arg_K = arg_M) =>
        /\ Cardinality(ValidWindows(arg_N, arg_M, arg_K)) = 1
        /\ returned.max_log_product = DirectScore(arg_matrix, <<0, 0>>, arg_K)
        /\ returned.max_log_product > NEG_INFINITY
               => returned.row = 0 /\ returned.col = 0
        /\ returned.max_log_product = NEG_INFINITY
               => returned.row = -1 /\ returned.col = -1

\* A 2 x 2 slice searched with K = 2 by two threads, its one window scoring
\* more than -INFINITY.
C5_Witness ==
    /\ returned # NoResult
    /\ arg_K = 2 /\ arg_N = 2 /\ arg_M = 2 /\ nthreads = 2
    /\ returned.max_log_product > NEG_INFINITY

\* ------------------------------------------------------------------ C6
\* C6 as stated (coordinator merge): rank 1's result replaces rank 0's only if
\* its score is strictly greater; on equal scores the final result is rank 0's.
C6_Original ==
    Finished =>
        IF other_result.max_log_product > local_result[0].max_log_product
        THEN result = other_result
        ELSE result = local_result[0]

\* C6 as amended: rank 0's result is the final result only if its score is
\* strictly greater than that of rank 1's translated result; on equal scores
\* (both -INFINITY included) the final result is rank 1's translated result.
C6_MergeRule ==
    Finished =>
        /\ other_result = local_result[1]
        /\ IF local_result[0].max_log_product > other_result.max_log_product
           THEN result = local_result[0]
           ELSE result = other_result

\* The two ranks found different windows of one score above -INFINITY.
C6_Witness ==
    /\ Finished
    /\ local_result[0].max_log_product = other_result.max_log_product
    /\ other_result.max_log_product > NEG_INFINITY
    /\ local_result[0] # other_result
    /\ result = other_result

\* ------------------------------------------------------------------ C7
\* The configuration errors the claim lists, and the inputs it accepts.
ConfigError(n, m, k) ==
    \/ n <= 0 \/ m <= 0 \/ k <= 0
    \/ k > n \/ k > m
    \/ n > MAX_MATRIX_SIZE \/ m > MAX_MATRIX_SIZE
ConfigAccepted(n, m, k) ==
    /\ 1 <= k /\ k <= Min(n, m)
    /\ n <= MAX_MATRIX_SIZE /\ m <= MAX_MATRIX_SIZE

\* Rank 0 has read N, M and K.
InputRead == size = 2 /\ pc[0] \notin {"init", "input"}

\* No matrix was generated, no message sent, no search run, nothing reported.
NothingComputed ==
    /\ \A r \in Ranks : matrix[r] = <<>> /\ searched[r] = <<>>
    /\ sent = <<>>
    /\ \A p \in Pairs : chan[p] = <<>>
    /\ result = NoResult /\ outcome = "none"

\* C7 (configuration errors abort before any computation): with a world size
\* other than 2, or with N, M, K non-positive, K > N, K > M, or N or M above
\* 1000, nothing is generated, sent or searched, and every rank ends in the
\* error exit; with world size 2 and 1 <= K <= min(N, M) <= max(N, M) <= 1000
\* the run is not rejected.
C7_ConfigErrorsAbort ==
    /\ size # 2 => NothingComputed /\ \A r \in Ranks : pc[r] \in {"init", "exit1"}
    /\ (InputRead /\ ConfigError(N[0], M[0], K[0]))
           => NothingComputed /\ \A r \in Ranks : pc[r] = "aborted"
    /\ (InputRead /\ ConfigAccepted(N[0], M[0], K[0]))
           => \A r \in Ranks : pc[r] \notin {"aborted", "exit1"}

\* A run aborted for K > M alone.
C7_Witness ==
    /\ size = 2 /\ pc[0] = "aborted"
    /\ 1 <= K[0] /\ K[0] <= N[0] /\ K[0] > M[0] /\ M[0] >= 1
    /\ N[0] <= MAX_MATRIX_SIZE

\* ------------------------------------------------------------------ C8
\* C8 (value range): every entry of the generated matrix lies in
\* [MIN_VALUE, MAX_VALUE], the entries the odd bias incremented included.
C8_ValueRange ==
    gen_ret # <<>> =>
        \A i \in 1..arg_N, j \in 1..arg_M :
            MIN_VALUE <= gen_ret[i][j] /\ gen_ret[i][j] <= MAX_VALUE

\* ------------------------------------------------------------------ C9
\* C9 (determinism of the score): an execution of the call with any team,
\* schedule and merge order returns the score that the execution of the same
\* call by one thread returns, so any two executions return the same score;
\* the coordinates returned are the sentinel's or those of a window with that
\* score.
C9_ScoreDeterminism ==
    returned # NoResult =>
        /\ \A single \in FindBestOutcomes(arg_matrix, arg_N, arg_M, arg_K, 1) :
               single.max_log_product = returned.max_log_product
        /\ \/ returned = Sentinel
           \/ /\ <<returned.row, returned.col>> \in ValidWindows(arg_N, arg_M, arg_K)
              /\ DirectScore(arg_matrix, <<returned.row, returned.col>>, arg_K)
                     = returned.max_log_product

\* An execution whose coordinates another execution does not return: two
\* windows tie at the best score.
C9_Witness ==
    /\ returned # NoResult
    /\ nthreads = 2
    /\ returned.max_log_product > 1
    /\ \E other \in FindBestOutcomes(arg_matrix, arg_N, arg_M, arg_K, 2) :
           other # returned

\* ------------------------------------------------------------------ C10
\* Cells of the K x K window at (sr, sc), and those with an odd absolute value.
WindowCells(sr, sc, Kk) == (sr..(sr + Kk - 1)) \X (sc..(sc + Kk - 1))
OddCells(mat, sr, sc, Kk) ==
    {c \in WindowCells(sr, sc, Kk) : Abs(Cell(mat, c[1], c[2])) % 2 = 1}

\* e^(sum of ln|v| over the cells): the product of |v|.
RECURSIVE SumLn(_, _)
SumLn(mat, cells) ==
    IF cells = {} THEN 1
    ELSE LET c == CHOOSE x \in cells : TRUE
         IN  Abs(Cell(mat, c[1], c[2])) * SumLn(mat, cells \ {c})

\* C10 (scoring rule): the score is -INFINITY if and only if no entry of the
\* window has an odd absolute value; otherwise it is the sum of ln|v| over
\* exactly the entries with an odd absolute value.
C10_ScoringRule ==
    score_ret # -1 =>
        LET odd == OddCells(arg_matrix, start_row, start_col, arg_K)
        IN  /\ score_ret = NEG_INFINITY <=> odd = {}
            /\ odd # {} => score_ret = SumLn(arg_matrix, odd)

\* A 2 x 2 window holding 0, -3 and two even values scores ln 3.
C10_Witness ==
    /\ score_ret = 3
    /\ arg_K = 2
    /\ \E a, b \in WindowCells(start_row, start_col, arg_K) :
         /\ Cell(arg_matrix, a[1], a[2]) = 0
         /\ Cell(arg_matrix, b[1], b[2]) = -3
         /\ \A c \in WindowCells(start_row, start_col, arg_K) \ {b} :
                Cell(arg_matrix, c[1], c[2]) % 2 = 0

\* ------------------------------------------------- the 4x4 scenario, K = 2
ScenarioMatrix ==
    << <<1, 2, 3, 5>>, <<4, 6, 7, 8>>, <<9, 2, 3, 11>>, <<4, 6, 8, 1>> >>

\* One call of find_best_submatrix_parallel on the scenario's matrix, by any
\* team.
ScenarioInit ==
    /\ arg_matrix = ScenarioMatrix
    /\ arg_N = 4 /\ arg_M = 4 /\ arg_K = 2
    /\ nthreads \in 1..MaxThreads
    /\ tpc = [t \in Threads |-> "loop"]
    /\ next = 0
    /\ iter = [t \in Threads |-> -1]
    /\ local_best = [t \in Threads |-> Sentinel]
    /\ best_result = Sentinel
    /\ lock = 0
    /\ returned = NoResult
    /\ scored = <<>>
    /\ entered = [t \in Threads |-> 0]
    /\ MpiIdle /\ ScoreIdle /\ GenIdle

SpecScenario == ScenarioInit /\ [][SearchNext]_vars

\* C11: on the 4x4 scenario with K = 2, whatever the schedule of the threads,
\* the search returns the window at (1, 2) with score ln 231 (entries 7, 8, 3,
\* 11), and the direct enumeration of the nine 2x2 windows finds that window
\* to be the only one of highest score.
C11_ScenarioOutput ==
    /\ \A w \in ValidWindows(4, 4, 2) \ {<<1, 2>>} :
           DirectScore(ScenarioMatrix, w, 2) < DirectScore(ScenarioMatrix, <<1, 2>>, 2)
    /\ Cardinality(ValidWindows(4, 4, 2)) = 9
    /\ returned # NoResult => returned = SubmatrixResult(1, 2, 231)

\* The search has returned after two threads each scored some window and
\* held different local bests.
C11_Witness ==
    /\ arg_matrix = ScenarioMatrix
    /\ returned # NoResult
    /\ nthreads >= 2
    /\ local_best[1].max_log_product > NEG_INFINITY
    /\ local_best[2].max_log_product > NEG_INFINITY
    /\ local_best[1] # local_best[2]

\* ------------------------------------------------------- the two-rank run
\* Rank r has returned from main: rank 1's last call is the send of its
\* result, which returns once the message is received.
Terminated(r) == pc[r] = "done" /\ ~Blocked(r)

\* A run of two ranks with synchronous sends whose parameters passed the
\* validation and whose matrix is within the model's bound.
RendezvousRun ==
    /\ size = 2 /\ rendezvous
    /\ pc[0] \notin {"init", "input", "aborted"}
    /\ N[0] * M[0] <= MaxCells

\* C12: with two ranks, validated parameters and sends that complete only
\* when received, the two ranks are never both waiting with no step left
\* before they have terminated, and under fair scheduling both terminate and
\* rank 0 holds the merged result.
C12_DeadlockFreeTermination ==
    /\ [](RendezvousRun =>
            \/ ENABLED Rank0Next \/ ENABLED Rank1Next
            \/ (Terminated(0) /\ Terminated(1)))
    /\ (RendezvousRun ~> (Terminated(0) /\ Terminated(1) /\ result # NoResult))

\* A terminated run with synchronous sends in which rank 1 received more
\* than one row.
C12_Witness ==
    /\ size = 2 /\ rendezvous
    /\ Terminated(0) /\ Terminated(1) /\ result # NoResult
    /\ Len(matrix[1]) >= 2

\* Rank 1 has begun (or finished) its call of find_best_submatrix_parallel.
SecondarySearching == size = 2 /\ pc[1] \in {"search", "sendResult", "done"}

\* C13: from the moment rank 1 starts its search its N, M and K are rank 0's,
\* it holds exactly N - N/2 rows and its local row i is row N/2 + i of rank
\* 0's matrix; rank 0 searches exactly the rows [0, N/2) and rank 1 its whole
\* block, so every row of the matrix is in exactly one rank's block.
C13_BlockTransfer ==
    /\ SecondarySearching =>
         /\ N[1] = N[0] /\ M[1] = M[0] /\ K[1] = K[0]
         /\ Len(matrix[1]) = N[0] - (N[0] \div 2)
         /\ \A i \in 0..(Len(matrix[1]) - 1) :
                matrix[1][i + 1] = matrix[0][(N[0] \div 2) + i + 1]
         /\ \A r \in 0..(N[0] - 1) :
                (r < N[0] \div 2) # (r - (N[0] \div 2) \in 0..(Len(matrix[1]) - 1))
    /\ (size = 2 /\ searched[0] # <<>>) =>
         searched[0] = << [rows |-> N[0] \div 2, cols |-> M[0], K |-> K[0]] >>
    /\ (size = 2 /\ searched[1] # <<>>) =>
         searched[1] = << [rows |-> N[0] - (N[0] \div 2), cols |-> M[0], K |-> K[0]] >>

\* Rank 1 is about to search a block of two different rows of a matrix of
\* three rows.
C13_Witness ==
    /\ size = 2 /\ pc[1] = "search"
    /\ N[0] = 3 /\ Len(matrix[1]) = 2
    /\ matrix[1][1] # matrix[1][2]
    /\ matrix[0][1] # matrix[0][2]

\* C14: whenever the final merged result has a score greater than negative
\* infinity, its window lies inside rank 0's full matrix (0 <= row, row + K
\* <= N, 0 <= col, col + K <= M) and scoring that window in the full matrix
\* gives exactly the reported score.
C14_ReportedWindowValid ==
    (Finished /\ result.max_log_product > NEG_INFINITY) =>
        /\ 0 <= result.row /\ result.row + K[0] <= N[0]
        /\ 0 <= result.col /\ result.col + K[0] <= M[0]
        /\ DirectScore(matrix[0], <<result.row, result.col>>, K[0])
               = result.max_log_product

\* The run ended with rank 1's window as the result, in the lower block,
\* where the row above it in the full matrix scores differently.
C14_Witness ==
    /\ Finished
    /\ result.max_log_product > NEG_INFINITY
    /\ result = other_result
    /\ result.row >= 1
    /\ result.row >= N[0] \div 2
    /\ DirectScore(matrix[0], <<result.row - (N[0] \div 2), result.col>>, K[0])
           # result.max_log_product

\* The number of MPI_Send calls made so far from rank a to rank b.
SendsFromTo(a, b) ==
    Cardinality({k \in 1..Len(sent) : sent[k].src = a /\ sent[k].dst = b})

\* C15 as stated: in a run with validated parameters the two ranks
\* communicate exactly three times in total, whatever N is: never more than
\* three messages are sent, and a terminated run has sent exactly three.
C15_Original ==
    size = 2 =>
        /\ Len(sent) <= 3
        /\ (Terminated(0) /\ Terminated(1)) => Len(sent) = 3

\* C15, amended: in a run with validated parameters rank 0 sends rank 1
\* three parameter messages and one message per row of its block, 3 + (N -
\* N/2) in all once its sending is over, rank 1 sends rank 0 one message, and a
\* terminated run has sent 4 + (N - N/2) messages, a number that grows with N.
C15_MessageCount ==
    size = 2 =>
        /\ pc[0] \in {"search", "recvResult", "select", "done"} =>
               SendsFromTo(0, 1) = 3 + (N[0] - (N[0] \div 2))
        /\ SendsFromTo(0, 1) <= 3 + (N[0] - (N[0] \div 2))
        /\ SendsFromTo(1, 0) <= 1
        /\ (Terminated(0) /\ Terminated(1)) =>
               /\ SendsFromTo(1, 0) = 1
               /\ Len(sent) = 4 + (N[0] - (N[0] \div 2))

\* A terminated run of a matrix of three rows: it has sent six messages,
\* three more than the three of the statement.
C15_Witness ==
    /\ size = 2 /\ Terminated(0) /\ Terminated(1)
    /\ N[0] = 3
    /\ Len(sent) = 6

\* The k-th message of a whole run in the order of the program text: N, M,
\* K, the rows N/2 .. N-1 of rank 0's matrix, then rank 1's result.
ExpectedSend(k) ==
    LET half == N[0] \div 2
        msg(a, b, d) == [src |-> a, dst |-> b, data |-> d]
    IN  IF k = 1 THEN msg(0, 1, <<N[0]>>)
        ELSE IF k = 2 THEN msg(0, 1, <<M[0]>>)
        ELSE IF k = 3 THEN msg(0, 1, <<K[0]>>)
        ELSE IF k <= 3 + (N[0] - half) THEN msg(0, 1, matrix[0][half + k - 3])
        ELSE msg(1, 0, local_result[1])
ExpectedCount == 4 + (N[0] - (N[0] \div 2))

\* The order of the steps of the two ranks, as a condition on each state.
ProtocolOrder ==
    LET half == N[0] \div 2
    IN  /\ Len(sent) <= ExpectedCount
        /\ \A k \in 1..Len(sent) : sent[k] = ExpectedSend(k)
        /\ (pc[0] = "search" \/ searched[0] # <<>>) =>
               SendsFromTo(0, 1) = 3 + (N[0] - half)
        /\ Len(searched[0]) <= 1 /\ Len(searched[1]) <= 1
        /\ (pc[1] = "search" \/ searched[1] # <<>>) =>
               /\ N[1] = N[0] /\ M[1] = M[0] /\ K[1] = K[0]
               /\ Len(matrix[1]) = N[0] - half
               /\ chan[<<0, 1>>] = <<>>
        /\ SendsFromTo(1, 0) <= 1
        /\ SendsFromTo(1, 0) = 1 =>
               /\ searched[1] # <<>> /\ local_result[1] # NoResult
               /\ local_result[1].row - half \in (-1)..(N[0] - half - K[0])
        /\ other_result # NoResult =>
               /\ searched[0] # <<>> /\ local_result[0] # NoResult
               /\ other_result = local_result[1]
        /\ result # NoResult =>
               /\ pc[0] = "done"
               /\ result = Select(local_result[0], other_result)

\* The merge is one step: result is assigned once, at the selection, after
\* the receive, and every send only adds to the messages sent.
ProtocolStep ==
    /\ result' # result =>
           /\ result = NoResult /\ pc[0] = "select" /\ other_result # NoResult
    /\ sent' # sent => (Len(sent') = Len(sent) + 1 /\ SubSeq(sent', 1, Len(sent)) = sent)
    /\ other_result' # other_result => other_result = NoResult

\* C16: rank 0 sends N, M, K, then the rows N/2 .. N-1 in increasing order,
\* each once, and searches only after the last row is sent; rank 1 searches
\* only after receiving the three parameters and its N - N/2 rows and sends
\* its result once, after its search and the translation of its row; rank 0
\* receives it only after its own search and merges exactly once.
C16_ProtocolOrder == [](size = 2 => ProtocolOrder) /\ [][size = 2 => ProtocolStep]_vars

\* A finished run in which rank 1 received two rows and its translated
\* result was merged.
C16_Witness ==
    /\ size = 2 /\ result # NoResult
    /\ Len(sent) = ExpectedCount
    /\ Len(matrix[1]) = 2
    /\ N[0] # M[0]
    /\ other_result.row >= 1

\* ------------------------------------- the threads of one call of the search
\* C17: in one call of find_best_submatrix_parallel no window is scored
\* twice, nothing outside 0 <= i <= rows - K, 0 <= j <= cols - K is scored,
\* and when the call returns every valid window has been scored exactly once.
C17_ExactlyOnce ==
    /\ DOMAIN scored \subseteq ValidWindows(arg_N, arg_M, arg_K)
    /\ \A w \in DOMAIN scored : scored[w] = 1
    /\ returned # NoResult => DOMAIN scored = ValidWindows(arg_N, arg_M, arg_K)

\* A call has returned after two threads shared at least three windows, each
\* thread having scored one.
C17_Witness ==
    /\ returned # NoResult
    /\ nthreads >= 2
    /\ Cardinality(ValidWindows(arg_N, arg_M, arg_K)) >= 3
    /\ local_best[1] # Sentinel /\ local_best[2] # Sentinel
    /\ local_best[1] # local_best[2]

\* At most one thread holds the lock of the critical region, and each thread
\* has entered the region once when it is in or past it, never before.
MergeExclusion ==
    /\ Cardinality({t \in Threads : tpc[t] = "critical"}) <= 1
    /\ \A t \in Threads :
         /\ tpc[t] = "critical" <=> lock = t
         /\ entered[t] = IF tpc[t] \in {"critical", "end"} THEN 1 ELSE 0
    /\ returned # NoResult => \A t \in Threads : entered[t] = 1

\* best_result changes only in the step of the thread inside the region, to
\* that thread's local best and to a strictly greater score.
MergeStep ==
    /\ best_result'.max_log_product >= best_result.max_log_product
    /\ best_result' # best_result =>
           \E t \in Threads :
               /\ tpc[t] = "critical" /\ lock = t /\ tpc'[t] = "end"
               /\ best_result' = local_best[t]
               /\ best_result'.max_log_product > best_result.max_log_product

\* C18: in every reachable state of find_best_submatrix_parallel at most one
\* thread is inside the critical region, best_result is written only by the
\* thread inside it, each thread enters it exactly once, and the score of
\* best_result never decreases: it is replaced only by a strictly greater one.
C18_MergeExclusion == []MergeExclusion /\ [][MergeStep]_vars

\* Two threads that found windows of different scores have both merged, and
\* the shared best is the greater of the two.
C18_Witness ==
    /\ returned # NoResult
    /\ nthreads >= 2
    /\ \A t \in Threads : entered[t] = 1
    /\ \E t, u \in Threads :
         /\ NEG_INFINITY < local_best[t].max_log_product
         /\ local_best[t].max_log_product < local_best[u].max_log_product
         /\ best_result = local_best[u]

\* C19: no thread is at or inside the critical merge before every valid
\* window has been scored by some thread, and the function returns
\* best_result only after every thread has completed its merge.
C19_ScanBeforeMerge ==
    /\ (\E t \in Threads : tpc[t] \in {"wait", "critical", "end"}) =>
         /\ DOMAIN scored = ValidWindows(arg_N, arg_M, arg_K)
         /\ \A u \in Threads : tpc[u] \notin {"loop", "body"}
    /\ returned # NoResult =>
         /\ \A t \in Threads : tpc[t] = "end" /\ entered[t] = 1
         /\ returned = best_result

\* A thread is inside the critical region while another, which scored
\* windows too, has not merged yet.
C19_Witness ==
    /\ nthreads >= 2
    /\ \E t, u \in Threads :
         /\ tpc[t] = "critical" /\ tpc[u] = "wait"
         /\ local_best[t] # Sentinel /\ local_best[u] # Sentinel
    /\ Cardinality(DOMAIN scored) >= 2

\* The call has no valid window: fewer rows or fewer columns than K.
EmptySearchSpace == arg_N < arg_K \/ arg_M < arg_K

\* C20: when find_best_submatrix_parallel is called with rows < K or cols <
\* K (rows = 0 included), no iteration of the loop is run, so no window is
\* scored and no cell of the matrix is read, and the value returned is
\* {row = -1, col = -1, score = -INFINITY}.
C20_EmptySearchSpace ==
    EmptySearchSpace =>
        /\ scored = <<>>
        /\ next = 0
        /\ \A t \in Threads : tpc[t] # "body" /\ iter[t] = -1
        /\ returned # NoResult =>
               returned = [row |-> -1, col |-> -1, max_log_product |-> NEG_INFINITY]

\* A team of two has returned from a call on a slice with odd entries but
\* fewer rows than K.
C20_Witness ==
    /\ returned # NoResult
    /\ nthreads >= 2
    /\ arg_N >= 1 /\ arg_N < arg_K /\ arg_M >= arg_K
    /\ \E i \in 0..(arg_N - 1), j \in 0..(arg_M - 1) : is_odd(Cell(arg_matrix, i, j))

====
